---- MODULE Spec2Model ----
(***************************************************************************)
(* Fixed-point numbers Fix<Bits, Base, Exp> of the crate `fix`: a value    *)
(* stores one integer `bits` of the storage type Bits and represents       *)
(* bits * Base^Exp; Base and Exp are type parameters.                      *)
(*                                                                         *)
(* The storage types modelled are u8, i8 and i16.  An arithmetic overflow  *)
(* of a Rust primitive panics when the crate is built with overflow checks *)
(* (the debug profile) and wraps in two's complement when it is built      *)
(* without them (the release profile); division or remainder by zero and   *)
(* MIN / -1, MIN % -1 panic in both.  The build is the variable `checks`.  *)
(***************************************************************************)
EXTENDS Integers, FiniteSets, Sequences, TLC

VARIABLES ty, checks, a, b, last, prev

vars == <<ty, checks, a, b, last, prev>>

(***************************************************************************)
(* Bounds of the model.                                                    *)
(***************************************************************************)
\* operands are drawn from -MaxMag..MaxMag, the ends of the storage range
\* and a few landmark values
MaxMag == 3
\* exponents are drawn from -MaxExp..MaxExp and the IEC exponents
MaxExp == 3

(***************************************************************************)
(* The storage types (the Bits parameter).                                 *)
(***************************************************************************)
Types == {"u8", "i8", "i16"}

Signed(t) == t \in {"i8", "i16"}

Width(t) == IF t = "i16" THEN 16 ELSE 8

MinVal(t) == IF Signed(t) THEN -(2 ^ (Width(t) - 1)) ELSE 0

MaxVal(t) == IF Signed(t) THEN 2 ^ (Width(t) - 1) - 1 ELSE 2 ^ Width(t) - 1

InRange(t, x) == MinVal(t) <= x /\ x <= MaxVal(t)

\* two's complement wrap-around of the mathematical result x
Wrap(t, x) ==
  LET m == 2 ^ Width(t)
      r == x % m
  IN  IF Signed(t) /\ r > MaxVal(t) THEN r - m ELSE r

Abs(x) == IF x < 0 THEN -x ELSE x

(***************************************************************************)
(* The primitive operators of the storage type.  A result is               *)
(* [ok |-> TRUE, bits |-> v] or, for a panic, [ok |-> FALSE, bits |-> 0].  *)
(***************************************************************************)
Ok(v) == [ok |-> TRUE, bits |-> v]

Panic == [ok |-> FALSE, bits |-> 0]

\* a primitive +, -, * or unary -, whose mathematical result is x
Overflowing(t, chk, x) ==
  IF InRange(t, x) THEN Ok(x)
  ELSE IF chk THEN Panic
  ELSE Ok(Wrap(t, x))

NegBits(t, chk, x) == Overflowing(t, chk, -x)

\* a faulty variant of AddBits: the sum saturates at the ends of the range
AddBitsSaturating(t, chk, x, y) ==
  IF InRange(t, x + y) THEN Ok(x + y)
  ELSE IF x + y > MaxVal(t) THEN Ok(MaxVal(t))
  ELSE Ok(MinVal(t))

AddBits(t, chk, x, y) == Overflowing(t, chk, x + y)

SubBits(t, chk, x, y) == Overflowing(t, chk, x - y)

MulBits(t, chk, x, y) == Overflowing(t, chk, x * y)

\* a faulty variant of TruncDiv: the quotient rounded toward minus infinity
FloorDiv(x, y) == IF y > 0 THEN x \div y ELSE (-x) \div (-y)

\* Rust's integer division rounds toward zero
TruncDiv(x, y) ==
  IF (x < 0) = (y < 0) THEN Abs(x) \div Abs(y) ELSE -(Abs(x) \div Abs(y))

\* Rust's remainder has the sign of the dividend
TruncRem(x, y) == IF x < 0 THEN -(Abs(x) % Abs(y)) ELSE x % Abs(y)

\* a faulty variant of DivBits: MIN / -1 is an overflow like any other
DivBitsWrapping(t, chk, x, y) ==
  IF y = 0 THEN Panic ELSE Overflowing(t, chk, TruncDiv(x, y))

DivBits(t, chk, x, y) ==
  IF y = 0 THEN Panic
  ELSE IF Signed(t) /\ x = MinVal(t) /\ y = -1 THEN Panic
  ELSE Ok(TruncDiv(x, y))

RemBits(t, chk, x, y) ==
  IF y = 0 THEN Panic
  ELSE IF Signed(t) /\ x = MinVal(t) /\ y = -1 THEN Panic
  ELSE Ok(TruncRem(x, y))

\* FromUnsigned::from_unsigned::<U>(): the type-level unsigned U as a Bits
FromUnsigned(t, u) == Wrap(t, u)

\* The loop of the primitive's pow (exponentiation by squaring): every
\* multiplication is the storage type's own.
RECURSIVE PowLoop(_, _, _, _, _)
PowLoop(t, chk, bs, acc, exp) ==
  IF exp > 1
  THEN LET acc1 == IF exp % 2 = 1 THEN MulBits(t, chk, acc, bs) ELSE Ok(acc)
           bs1  == MulBits(t, chk, bs, bs)
       IN  IF ~acc1.ok \/ ~bs1.ok THEN Panic
           ELSE PowLoop(t, chk, bs1.bits, acc1.bits, exp \div 2)
  ELSE IF exp = 1 THEN MulBits(t, chk, acc, bs)
  ELSE Ok(acc)

\* a faulty variant of Pow: the accumulator starts at the base
PowFromBase(t, chk, bs, exp) == PowLoop(t, chk, bs, bs, exp)

\* Pow::pow(self, exp)
Pow(t, chk, bs, exp) == PowLoop(t, chk, bs, 1, exp)

(***************************************************************************)
(* Fix<Bits, Base, Exp>.  The type parameters Base and Exp are carried in  *)
(* the value so that the result type of every operation can be stated.     *)
(* The result of an operation is [ok |-> TRUE, val |-> the value returned] *)
(* or, when it panics, FixPanic.                                           *)
(***************************************************************************)
NoFix == [bits |-> 0, base |-> 0, exp |-> 0]

FixPanic == [ok |-> FALSE, val |-> NoFix]

\* Fix::new(bits), of type Fix<Bits, B, E>
new(y, B, E) == [bits |-> y, base |-> B, exp |-> E]

\* Fix::new applied to the result r of a primitive operator
Wrapped(r, B, E) ==
  IF r.ok THEN [ok |-> TRUE, val |-> new(r.bits, B, E)] ELSE FixPanic

\* impl PartialEq for Fix: the bits alone are compared
eq(self, rhs) == self.bits = rhs.bits

\* impl Ord for Fix: the Ordering of the bits
cmp(self, rhs) ==
  IF self.bits < rhs.bits THEN "Less"
  ELSE IF self.bits = rhs.bits THEN "Equal"
  ELSE "Greater"

\* impl PartialOrd for Fix: Some(ordering) of the bits, which are integers
partial_cmp(self, rhs) == <<cmp(self, rhs)>>

\* self <= rhs and self < rhs, the operators that PartialOrd provides
le(self, rhs) == partial_cmp(self, rhs) \in {<<"Less">>, <<"Equal">>}

lt(self, rhs) == partial_cmp(self, rhs) = <<"Less">>

\* a faulty variant of Inverse: the comparison turned round
InverseSwapped(Exp, ToExp) == Exp - ToExp > 0

\* Le::<Diff<Exp, ToExp>, Z0>::to_bool(): typenum's Le<A, B> is A < B
Inverse(Exp, ToExp) == Exp - ToExp < 0

\* a faulty variant of convert: the exponents are added
convert_sum(t, chk, self, ToExp) ==
  LET bs    == FromUnsigned(t, self.base)
      ratio == Pow(t, chk, bs, Abs(self.exp + ToExp))
  IN  IF ~ratio.ok THEN FixPanic
      ELSE IF self.exp - ToExp < 0
           THEN Wrapped(DivBits(t, chk, self.bits, ratio.bits), self.base, ToExp)
           ELSE Wrapped(MulBits(t, chk, self.bits, ratio.bits), self.base, ToExp)

\* a faulty variant of convert: zero is returned before the ratio is computed
convert_zero_first(t, chk, self, ToExp) ==
  IF self.bits = 0 THEN [ok |-> TRUE, val |-> new(0, self.base, ToExp)]
  ELSE LET ratio == Pow(t, chk, FromUnsigned(t, self.base), Abs(self.exp - ToExp))
       IN  IF ~ratio.ok THEN FixPanic
           ELSE IF self.exp - ToExp < 0
                THEN Wrapped(DivBits(t, chk, self.bits, ratio.bits), self.base, ToExp)
                ELSE Wrapped(MulBits(t, chk, self.bits, ratio.bits), self.base, ToExp)

\* a faulty variant of convert: the divide path takes the remainder
convert_rem(t, chk, self, ToExp) ==
  LET ratio == Pow(t, chk, FromUnsigned(t, self.base), Abs(self.exp - ToExp))
  IN  IF ~ratio.ok THEN FixPanic
      ELSE IF self.exp - ToExp < 0
           THEN Wrapped(RemBits(t, chk, self.bits, ratio.bits), self.base, ToExp)
           ELSE Wrapped(MulBits(t, chk, self.bits, ratio.bits), self.base, ToExp)

\* Fix::convert::<ToExp>(self)
convert(t, chk, self, ToExp) ==
  LET bs      == FromUnsigned(t, self.base)
      diff    == Abs(self.exp - ToExp)
      inverse == Inverse(self.exp, ToExp)
      ratio   == Pow(t, chk, bs, diff)
  IN  IF ~ratio.ok THEN FixPanic
      ELSE IF inverse
           THEN Wrapped(DivBits(t, chk, self.bits, ratio.bits), self.base, ToExp)
           ELSE Wrapped(MulBits(t, chk, self.bits, ratio.bits), self.base, ToExp)

\* impl Neg for Fix
neg(t, chk, self) == Wrapped(NegBits(t, chk, self.bits), self.base, self.exp)

\* impl Add for Fix (rhs: Self)
add(t, chk, self, rhs) ==
  Wrapped(AddBits(t, chk, self.bits, rhs.bits), self.base, self.exp)

\* impl Sub for Fix (rhs: Self)
sub(t, chk, self, rhs) ==
  Wrapped(SubBits(t, chk, self.bits, rhs.bits), self.base, self.exp)

\* a faulty variant of mul: the exponents are subtracted
mul_diff(t, chk, self, rhs) ==
  Wrapped(MulBits(t, chk, self.bits, rhs.bits), self.base, self.exp - rhs.exp)

\* impl Mul<Fix<Bits, Base, RExp>> for Fix<Bits, Base, LExp>
mul(t, chk, self, rhs) ==
  Wrapped(MulBits(t, chk, self.bits, rhs.bits), self.base, self.exp + rhs.exp)

\* impl Div<Fix<Bits, Base, RExp>> for Fix<Bits, Base, LExp>
div(t, chk, self, rhs) ==
  Wrapped(DivBits(t, chk, self.bits, rhs.bits), self.base, self.exp - rhs.exp)

\* a faulty variant of rem: the result takes the exponent of the right operand
rem_right_exp(t, chk, self, rhs) ==
  Wrapped(RemBits(t, chk, self.bits, rhs.bits), self.base, rhs.exp)

\* impl Rem<Fix<Bits, Base, RExp>> for Fix<Bits, Base, LExp>
rem(t, chk, self, rhs) ==
  Wrapped(RemBits(t, chk, self.bits, rhs.bits), self.base, self.exp)

\* impl Mul<Bits> for Fix
mul_bits(t, chk, self, y) ==
  Wrapped(MulBits(t, chk, self.bits, y), self.base, self.exp)

\* impl Div<Bits> for Fix
div_bits(t, chk, self, y) ==
  Wrapped(DivBits(t, chk, self.bits, y), self.base, self.exp)

\* impl Rem<Bits> for Fix
rem_bits(t, chk, self, y) ==
  Wrapped(RemBits(t, chk, self.bits, y), self.base, self.exp)

\* The compound assignments write self.bits and nothing else; the result
\* is the value of *self afterwards.
Assigned(r, self) ==
  IF r.ok THEN [ok |-> TRUE, val |-> [self EXCEPT !.bits = r.bits]]
  ELSE FixPanic

\* impl AddAssign for Fix: self.bits += rhs.bits
add_assign(t, chk, self, rhs) ==
  Assigned(AddBits(t, chk, self.bits, rhs.bits), self)

\* impl SubAssign for Fix: self.bits -= rhs.bits
sub_assign(t, chk, self, rhs) ==
  Assigned(SubBits(t, chk, self.bits, rhs.bits), self)

\* impl MulAssign<Bits> for Fix: self.bits *= rhs
mul_assign_bits(t, chk, self, y) ==
  Assigned(MulBits(t, chk, self.bits, y), self)

\* impl DivAssign<Bits> for Fix: self.bits /= rhs
div_assign_bits(t, chk, self, y) ==
  Assigned(DivBits(t, chk, self.bits, y), self)

\* a faulty variant of rem_assign: self.bits /= rhs.bits
rem_assign_div(t, chk, self, rhs) ==
  Assigned(DivBits(t, chk, self.bits, rhs.bits), self)

\* impl RemAssign<Fix<Bits, Base, RExp>> for Fix<Bits, Base, LExp>
rem_assign(t, chk, self, rhs) ==
  Assigned(RemBits(t, chk, self.bits, rhs.bits), self)

\* impl RemAssign<Bits> for Fix: self.bits %= rhs
rem_assign_bits(t, chk, self, y) ==
  Assigned(RemBits(t, chk, self.bits, y), self)

(***************************************************************************)
(* The inputs.                                                             *)
(***************************************************************************)
\* the bases of the alias catalogue: U2 (binary, iec) and U10 (decimal, si)
Bases == {2, 10}

\* the exponents of iec::Kibi and iec::Mebi
IecExps == {10, 20}

Exps == (-MaxExp..MaxExp) \cup IecExps

\* operands of the operator suite carry one of these exponents
OperandExps == {-MaxExp, 0, MaxExp}

Near(t) == {x \in -MaxMag..MaxMag : InRange(t, x)}

Ends(t) == {MinVal(t), MaxVal(t)}

\* values of the crate's tests and documentation, and values that make a
\* division by 10, 100 or 1000 exact or inexact
Landmarks == {5, 6, 15, -15, 100, -100, 200, 250, 1024, 15000, -15000}

ConvertBits(t) == Near(t) \cup Ends(t) \cup {x \in Landmarks : InRange(t, x)}

OperandBits(t) == Near(t) \cup Ends(t) \cup {x \in {5, 6} : InRange(t, x)}

(***************************************************************************)
(* The state.  ty and checks are fixed by the build; a is the value the    *)
(* program operates on (the target of a compound assignment), b its right  *)
(* operand; last records the most recent call and prev the one before it.  *)
(***************************************************************************)
Call(op, lhs, rhs, raw, to, third, res) ==
  [op |-> op, lhs |-> lhs, rhs |-> rhs, raw |-> raw, to |-> to,
   third |-> third, ok |-> res.ok, out |-> res.val]

\* the call Fix::new(y) that made the value v
Constructed(v) ==
  Call("new", NoFix, NoFix, v.bits, v.exp, NoFix, [ok |-> TRUE, val |-> v])

Init ==
  /\ ty \in Types
  /\ checks \in BOOLEAN
  /\ \E B \in Bases :
       /\ a \in {new(y, B, E) : y \in OperandBits(ty), E \in OperandExps}
       /\ b \in {new(y, B, E) : y \in OperandBits(ty), E \in OperandExps}
  /\ last = Constructed(a)
  /\ prev = last

InitConvert ==
  /\ ty \in Types
  /\ checks \in BOOLEAN
  /\ \E B \in Bases :
       a \in {new(y, B, E) : y \in ConvertBits(ty), E \in Exps}
  /\ b = a
  /\ last = Constructed(a)
  /\ prev = last

\* a and b are commensurate: the same storage type, base and exponent
InitOrder ==
  /\ ty \in Types
  /\ checks \in BOOLEAN
  /\ \E B \in Bases, E \in Exps :
       /\ a \in {new(y, B, E) : y \in ConvertBits(ty)}
       /\ b \in {new(y, B, E) : y \in ConvertBits(ty)}
  /\ last = Constructed(a)
  /\ prev = last

\* a and b are freshly constructed and no call has been made on them
Fresh == last.op = "new"

\* a call that returns (or panics) and leaves a and b as they are
Returns(op, rhs, raw, to, third, res) ==
  /\ last' = Call(op, a, rhs, raw, to, third, res)
  /\ prev' = last
  /\ UNCHANGED <<ty, checks, a, b>>

\* a compound assignment: it writes a; a panic leaves a as it was
Assigns(op, rhs, raw, res) ==
  /\ last' = Call(op, a, rhs, raw, a.exp, NoFix, res)
  /\ prev' = last
  /\ a' = IF res.ok THEN res.val ELSE a
  /\ UNCHANGED <<ty, checks, b>>

Convert ==
  /\ Fresh
  /\ \E ToExp \in Exps :
       Returns("convert", NoFix, 0, ToExp, NoFix, convert(ty, checks, a, ToExp))

\* the value a conversion returned is converted back to the exponent it had
ConvertBack ==
  /\ last.op = "convert"
  /\ last.ok
  /\ last' = Call("convert_back", last.out, NoFix, 0, last.lhs.exp, NoFix,
                  convert(ty, checks, last.out, last.lhs.exp))
  /\ prev' = last
  /\ UNCHANGED <<ty, checks, a, b>>

\* a.convert() has returned; b is converted to the same exponent, as in
\* a.convert::<T>() <= b.convert::<T>()
ConvertRhs ==
  /\ last.op = "convert"
  /\ last.ok
  /\ last' = Call("convert_rhs", b, NoFix, 0, last.to, NoFix,
                  convert(ty, checks, b, last.to))
  /\ prev' = last
  /\ UNCHANGED <<ty, checks, a, b>>

\* Neg is implemented by the signed primitives only
Neg ==
  /\ Fresh
  /\ Signed(ty)
  /\ Returns("neg", NoFix, 0, a.exp, NoFix, neg(ty, checks, a))

\* Add and Sub take rhs: Self, a value of the same Exp
Add ==
  /\ Fresh
  /\ b.exp = a.exp
  /\ Returns("add", b, 0, a.exp, NoFix, add(ty, checks, a, b))

Sub ==
  /\ Fresh
  /\ b.exp = a.exp
  /\ Returns("sub", b, 0, a.exp, NoFix, sub(ty, checks, a, b))

Mul ==
  /\ Fresh
  /\ Returns("mul", b, 0, a.exp + b.exp, NoFix, mul(ty, checks, a, b))

Div ==
  /\ Fresh
  /\ Returns("div", b, 0, a.exp - b.exp, NoFix, div(ty, checks, a, b))

Rem ==
  /\ Fresh
  /\ Returns("rem", b, 0, a.exp, NoFix, rem(ty, checks, a, b))

\* the raw operand of the operators on Bits is b.bits
MulBitsOp ==
  /\ Fresh
  /\ Returns("mul_bits", NoFix, b.bits, a.exp, NoFix,
             mul_bits(ty, checks, a, b.bits))

DivBitsOp ==
  /\ Fresh
  /\ Returns("div_bits", NoFix, b.bits, a.exp, NoFix,
             div_bits(ty, checks, a, b.bits))

RemBitsOp ==
  /\ Fresh
  /\ Returns("rem_bits", NoFix, b.bits, a.exp, NoFix,
             rem_bits(ty, checks, a, b.bits))

\* (a + b) + c
AddLeft ==
  /\ Fresh
  /\ b.exp = a.exp
  /\ \E y \in Near(ty) :
       LET c == new(y, a.base, a.exp)
           s == add(ty, checks, a, b)
       IN  Returns("add_left", b, 0, a.exp, c,
                   IF s.ok THEN add(ty, checks, s.val, c) ELSE FixPanic)

\* a + (b + c)
AddRight ==
  /\ Fresh
  /\ b.exp = a.exp
  /\ \E y \in Near(ty) :
       LET c == new(y, a.base, a.exp)
           s == add(ty, checks, b, c)
       IN  Returns("add_right", b, 0, a.exp, c,
                   IF s.ok THEN add(ty, checks, a, s.val) ELSE FixPanic)

AddAssign ==
  /\ Fresh
  /\ b.exp = a.exp
  /\ Assigns("add_assign", b, 0, add_assign(ty, checks, a, b))

SubAssign ==
  /\ Fresh
  /\ b.exp = a.exp
  /\ Assigns("sub_assign", b, 0, sub_assign(ty, checks, a, b))

MulAssignBits ==
  /\ Fresh
  /\ Assigns("mul_assign_bits", NoFix, b.bits,
             mul_assign_bits(ty, checks, a, b.bits))

DivAssignBits ==
  /\ Fresh
  /\ Assigns("div_assign_bits", NoFix, b.bits,
             div_assign_bits(ty, checks, a, b.bits))

RemAssign ==
  /\ Fresh
  /\ Assigns("rem_assign", b, 0, rem_assign(ty, checks, a, b))

RemAssignBits ==
  /\ Fresh
  /\ Assigns("rem_assign_bits", NoFix, b.bits,
             rem_assign_bits(ty, checks, a, b.bits))

Next ==
  \/ Convert
  \/ Neg
  \/ Add
  \/ Sub
  \/ Mul
  \/ Div
  \/ Rem
  \/ MulBitsOp
  \/ DivBitsOp
  \/ RemBitsOp
  \/ AddLeft
  \/ AddRight
  \/ AddAssign
  \/ SubAssign
  \/ MulAssignBits
  \/ DivAssignBits
  \/ RemAssign
  \/ RemAssignBits

Spec == Init /\ [][Next]_vars

NextConvert ==
  \/ Convert
  \/ ConvertBack

SpecConvert == InitConvert /\ [][NextConvert]_vars

NextOrder ==
  \/ Convert
  \/ ConvertRhs

SpecOrder == InitOrder /\ [][NextOrder]_vars

(***************************************************************************)
(* Reference arithmetic for the properties: the mathematical values, by    *)
(* repeated multiplication and by the defining property of a quotient.     *)
(***************************************************************************)
\* B^k, or some value above cap once B^k exceeds cap
RECURSIVE SatPow(_, _, _)
SatPow(B, k, cap) ==
  IF k = 0 THEN 1
  ELSE LET p == SatPow(B, k - 1, cap) IN IF p > cap THEN p ELSE p * B

\* B^k is a value of the storage type t
RatioFits(t, B, k) == SatPow(B, k, MaxVal(t)) <= MaxVal(t)

\* B^k modulo 2^Width(t), as a value of t
RECURSIVE WrapPow(_, _, _)
WrapPow(t, B, k) == IF k = 0 THEN 1 ELSE Wrap(t, WrapPow(t, B, k - 1) * B)

\* the value of base^k in the storage type: exact when it fits, wrapped
\* when it does not (a build without overflow checks)
StoredRatio(t, B, k) ==
  IF RatioFits(t, B, k) THEN SatPow(B, k, MaxVal(t)) ELSE WrapPow(t, B, k)

\* q is x / y rounded toward zero (y # 0)
IsQuot(q, x, y) ==
  LET r == x - q * y
  IN  Abs(r) < Abs(y) /\ (r = 0 \/ (r < 0) = (x < 0))

\* r is the remainder of x / y rounded toward zero (y # 0)
IsRem(r, x, y) ==
  /\ Abs(r) < Abs(y)
  /\ (r = 0 \/ (r < 0) = (x < 0))
  /\ (x - r) % Abs(y) = 0

IsConvert == last.op \in {"convert", "convert_back"}

\* of the conversion in last: Exp - ToExp, and the ratio in the storage type
Diff == last.lhs.exp - last.to

Ratio == StoredRatio(ty, last.lhs.base, Abs(Diff))

Fits == RatioFits(ty, last.lhs.base, Abs(Diff))

(***************************************************************************)
(* C1: convert returns a value of exponent ToExp, of the same base, whose  *)
(* bits are bits / ratio when diff < 0 and bits * ratio when diff >= 0,    *)
(* where ratio = base^|diff| and /, * and ^ are the storage type's: the    *)
(* quotient rounds toward zero, an overflow of the power or of the product *)
(* panics under overflow checks and wraps without them, and a division by  *)
(* a ratio that wrapped to 0 panics.                                       *)
(***************************************************************************)
C1_ConvertRule ==
  IsConvert =>
    LET v == last.lhs
    IN  IF ~Fits /\ checks THEN ~last.ok
        ELSE IF Diff < 0
        THEN IF Ratio = 0 THEN ~last.ok
             ELSE /\ last.ok
                  /\ last.out.exp = last.to
                  /\ last.out.base = v.base
                  /\ IsQuot(last.out.bits, v.bits, Ratio)
        ELSE IF InRange(ty, v.bits * Ratio)
        THEN last.ok /\ last.out = new(v.bits * Ratio, v.base, last.to)
        ELSE IF checks THEN ~last.ok
        ELSE last.ok /\ last.out = new(Wrap(ty, v.bits * Ratio), v.base, last.to)

\* iec: Mebi::new(1).convert() is Kibi::new(1024)
C1_Witness ==
  /\ ty = "i16"
  /\ last.op = "convert"
  /\ last.lhs = new(1, 2, 20)
  /\ last.to = 10
  /\ last.ok
  /\ last.out = new(1024, 2, 10)

(***************************************************************************)
(* C4: a conversion to the exponent the value already has returns the      *)
(* value itself and never panics.                                          *)
(***************************************************************************)
C4_ConvertIdentity ==
  (IsConvert /\ last.to = last.lhs.exp) => (last.ok /\ last.out = last.lhs)

C4_Witness ==
  /\ last.op = "convert"
  /\ last.to = last.lhs.exp
  /\ checks
  /\ last.lhs.bits = MinVal(ty)
  /\ Signed(ty)
  /\ last.ok

\* the conversion recorded in call c neither overflows nor loses a remainder
Lossless(c) ==
  LET k == Abs(c.lhs.exp - c.to)
      R == SatPow(c.lhs.base, k, MaxVal(ty))
  IN  /\ RatioFits(ty, c.lhs.base, k)
      /\ IF c.lhs.exp - c.to < 0
         THEN c.lhs.bits % R = 0
         ELSE InRange(ty, c.lhs.bits * R)

(***************************************************************************)
(* C5: v.convert(E2).convert(E1) = v when neither conversion overflows     *)
(* (base^|E1 - E2| and the product are values of the storage type) and     *)
(* the division is exact (the dividend is a multiple of the ratio).        *)
(***************************************************************************)
C5_ConvertInverse ==
  (last.op = "convert_back" /\ Lossless(prev) /\ Lossless(last)) =>
    (last.ok /\ last.out = prev.lhs)

\* divide, then multiply: 15000 at exponent -3 to 15 at exponent 0 and back
C5_Witness ==
  /\ last.op = "convert_back"
  /\ Lossless(prev)
  /\ Lossless(last)
  /\ prev.lhs = new(15000, 10, -3)
  /\ prev.to = 0
  /\ prev.out.bits = 15
  /\ last.out = prev.lhs

Divided == IsConvert /\ Diff < 0 /\ last.ok

(***************************************************************************)
(* C7: on the divide path (diff < 0) the quotient r is rounded toward      *)
(* zero, for negative bits too: r * ratio is zero or has the sign of bits, *)
(* |r * ratio| <= |bits| and |bits - r * ratio| < |ratio|, where ratio is  *)
(* base^|diff| in the storage type; the conversion loses something exactly *)
(* when bits is not a multiple of ratio.  When base^|diff| is a value of   *)
(* the storage type, ratio >= 1 and the last bound is the claim's          *)
(* |bits - r * ratio| < ratio.                                             *)
(***************************************************************************)
C7_Truncation ==
  Divided =>
    LET x == last.lhs.bits
        p == last.out.bits * Ratio
    IN  /\ (p = 0 \/ (p < 0) = (x < 0))
        /\ Abs(p) <= Abs(x)
        /\ Abs(x - p) < Abs(Ratio)
        /\ (Fits => Ratio >= 1)
        /\ (p # x) <=> (x % Abs(Ratio) # 0)

\* -15 at exponent 0 converts to -1 at exponent 1, not to -2
C7_Witness ==
  /\ Divided
  /\ last.lhs = new(-15, 10, 0)
  /\ last.to = 1
  /\ last.out.bits = -1

\* the claim as stated: |bits - r * ratio| < ratio
C7_Original ==
  Divided =>
    LET x == last.lhs.bits
        p == last.out.bits * Ratio
    IN  /\ (p = 0 \/ (p < 0) = (x < 0))
        /\ Abs(p) <= Abs(x)
        /\ Abs(x - p) < Ratio
        /\ (p # x) <=> (x % Abs(Ratio) # 0)

\* the failures the claim states
StatedFailures ==
  /\ ~Fits => ~last.ok
  /\ (Fits /\ Diff < 0) => last.ok
  /\ (Fits /\ Diff >= 0) =>
       (~last.ok <=> ~InRange(ty, last.lhs.bits * Ratio))

(***************************************************************************)
(* C10: under overflow checks convert panics whenever base^|diff| is not   *)
(* a value of the storage type, whatever bits is; when it is one, the      *)
(* divide path never panics and the multiply path panics exactly when      *)
(* bits * ratio is outside the storage type's range.  Without overflow     *)
(* checks the power and the product wrap, and convert panics exactly when  *)
(* it divides by a ratio that wrapped to 0.                                *)
(***************************************************************************)
C10_ConvertFailure ==
  IsConvert =>
    /\ checks => StatedFailures
    /\ ~checks => (~last.ok <=> (Diff < 0 /\ Ratio = 0))
    /\ (Fits /\ Diff < 0) => last.ok

\* an 8-bit 200 at exponent -3 converted to exponent 0
C10_Witness ==
  /\ last.op = "convert"
  /\ checks
  /\ ty = "u8"
  /\ last.lhs = new(200, 10, -3)
  /\ last.to = 0
  /\ ~last.ok

\* the claim as stated, for every build
C10_Original == IsConvert => StatedFailures

(***************************************************************************)
(* The operands of the call in last: X is the left one, Y the right one    *)
(* (the bits of a Fix operand, or the raw Bits operand).                   *)
(***************************************************************************)
MulOps == {"mul", "mul_bits", "mul_assign_bits"}

DivOps == {"div", "div_bits", "div_assign_bits"}

RemOps == {"rem", "rem_bits", "rem_assign", "rem_assign_bits"}

RawOps == {"mul_bits", "div_bits", "rem_bits",
           "mul_assign_bits", "div_assign_bits", "rem_assign_bits"}

AssignOps == {"add_assign", "sub_assign", "mul_assign_bits",
              "div_assign_bits", "rem_assign", "rem_assign_bits"}

X == last.lhs.bits

Y == IF last.op \in RawOps THEN last.raw ELSE last.rhs.bits

Z == last.third.bits

\* what the call in last did: the value returned, or a panic
Outcome == [ok |-> last.ok, val |-> last.out]

\* the storage type's result for the mathematical result x of +, - or *
Stored(x, B, E) ==
  IF InRange(ty, x) THEN Outcome = [ok |-> TRUE, val |-> new(x, B, E)]
  ELSE IF checks THEN ~last.ok
  ELSE Outcome = [ok |-> TRUE, val |-> new(Wrap(ty, x), B, E)]

\* MIN / -1 and MIN % -1 of a signed type
DivOverflow ==
  last.op \in DivOps \cup RemOps /\ Signed(ty) /\ X = MinVal(ty) /\ Y = -1

(***************************************************************************)
(* C2: a * b has bits a.bits * b.bits and exponent Ex + Ey; a / b, with    *)
(* b.bits # 0, has bits a.bits / b.bits (rounded toward zero) and exponent *)
(* Ex - Ey; the base is that of the operands, and the bits are those of    *)
(* the operands as they are, not converted.  The product and the quotient  *)
(* are the storage type's: an overflow panics under overflow checks and    *)
(* wraps without them, and MIN / -1 panics.                                *)
(***************************************************************************)
C2_MulDivScale ==
  /\ last.op = "mul" =>
       Stored(X * Y, last.lhs.base, last.lhs.exp + last.rhs.exp)
  /\ (last.op = "div" /\ Y # 0) =>
       IF DivOverflow THEN ~last.ok
       ELSE /\ last.ok
            /\ last.out.base = last.lhs.base
            /\ last.out.exp = last.lhs.exp - last.rhs.exp
            /\ IsQuot(last.out.bits, X, Y)

\* Kilo::new(2) * Milli::new(3) is Unit::new(6)
C2_Witness ==
  /\ last.op = "mul"
  /\ last.lhs = new(2, 10, 3)
  /\ last.rhs = new(3, 10, -3)
  /\ last.ok
  /\ last.out = new(6, 10, 0)

(***************************************************************************)
(* C3: a % b, with b.bits # 0, has bits a.bits % b.bits (the remainder of  *)
(* the division rounded toward zero) and the exponent and base of the left *)
(* operand a, whatever the exponent of b is; MIN % -1 panics.              *)
(***************************************************************************)
C3_RemKeepsLeftExp ==
  (last.op = "rem" /\ Y # 0) =>
    IF DivOverflow THEN ~last.ok
    ELSE /\ last.ok
         /\ last.out.base = last.lhs.base
         /\ last.out.exp = last.lhs.exp
         /\ IsRem(last.out.bits, X, Y)

\* Kilo::new(6) % Milli::new(5) is Kilo::new(1)
C3_Witness ==
  /\ last.op = "rem"
  /\ last.lhs = new(6, 10, 3)
  /\ last.rhs = new(5, 10, -3)
  /\ last.ok
  /\ last.out = new(1, 10, 3)

\* (x + y) + z and x + (y + z)
LeftGrouping(x, y, z) ==
  LET s == add(ty, checks, x, y)
  IN  IF s.ok THEN add(ty, checks, s.val, z) ELSE FixPanic

RightGrouping(x, y, z) ==
  LET s == add(ty, checks, y, z)
  IN  IF s.ok THEN add(ty, checks, x, s.val) ELSE FixPanic

\* the other grouping of the sum in last
OtherGrouping ==
  IF last.op = "add_left"
  THEN RightGrouping(last.lhs, last.rhs, last.third)
  ELSE LeftGrouping(last.lhs, last.rhs, last.third)

NoSumOverflows ==
  /\ InRange(ty, X + Y)
  /\ InRange(ty, Y + Z)
  /\ InRange(ty, X + Y + Z)

Commutes ==
  last.op = "add" =>
    /\ Outcome = add(ty, checks, last.rhs, last.lhs)
    /\ Stored(X + Y, last.lhs.base, last.lhs.exp)

(***************************************************************************)
(* C6: a + b = b + a for all commensurate a and b; a sum that does not     *)
(* overflow has the sum of the operands' bits and their exponent.          *)
(* (a + b) + c = a + (b + c) whenever both groupings return, and one       *)
(* returns exactly when the other does if the storage type is unsigned,    *)
(* if the build has no overflow checks (the sums wrap), or if no partial   *)
(* sum overflows.                                                          *)
(***************************************************************************)
C6_AddLaws ==
  /\ Commutes
  /\ last.op \in {"add_left", "add_right"} =>
       /\ (last.ok /\ OtherGrouping.ok) => Outcome = OtherGrouping
       /\ (~Signed(ty) \/ ~checks \/ NoSumOverflows) => Outcome = OtherGrouping
       /\ NoSumOverflows =>
            Outcome = [ok |-> TRUE,
                       val |-> new(X + Y + Z, last.lhs.base, last.lhs.exp)]

\* (1 + 2) + 3 = 1 + (2 + 3) = 6
C6_Witness ==
  /\ last.op = "add_left"
  /\ X = 1
  /\ Y = 2
  /\ Z = 3
  /\ last.ok
  /\ last.out.bits = 6
  /\ Outcome = OtherGrouping

\* the claim as stated: both laws for all commensurate a, b and c
C6_Original ==
  /\ Commutes
  /\ last.op \in {"add_left", "add_right"} => Outcome = OtherGrouping

(***************************************************************************)
(* The failures of the primitive operators under the call in last.         *)
(***************************************************************************)
\* an overflow of the multiplication: the product of the operands, or the
\* product bits * ratio of a conversion
MulOverflow ==
  \/ last.op \in MulOps /\ ~InRange(ty, X * Y)
  \/ IsConvert /\ Diff >= 0 /\ ~InRange(ty, X * Ratio)

\* a division or remainder by zero: by the operand, or by a conversion
\* ratio that wrapped to 0
DivByZero ==
  \/ last.op \in DivOps \cup RemOps /\ Y = 0
  \/ IsConvert /\ Diff < 0 /\ Ratio = 0

\* base^|diff| is not a value of the storage type
RatioOverflow == IsConvert /\ ~Fits

\* an overflow of a negation, an addition or a subtraction
SumOverflow ==
  \/ last.op = "neg" /\ ~InRange(ty, -X)
  \/ last.op \in {"add", "add_assign"} /\ ~InRange(ty, X + Y)
  \/ last.op \in {"sub", "sub_assign"} /\ ~InRange(ty, X - Y)
  \/ last.op = "add_left" /\ ~(InRange(ty, X + Y) /\ InRange(ty, X + Y + Z))
  \/ last.op = "add_right" /\ ~(InRange(ty, Y + Z) /\ InRange(ty, X + Y + Z))

(***************************************************************************)
(* C8: a call panics exactly when a primitive operator under it fails:     *)
(* under overflow checks, when a multiplication, the conversion ratio, a   *)
(* negation, an addition or a subtraction overflows; in every build, when  *)
(* it divides or takes a remainder by zero, or divides MIN by -1 in a      *)
(* signed type.  Every other call, the construction included, returns;     *)
(* without overflow checks an overflow wraps and is no failure.            *)
(***************************************************************************)
C8_FailureModes ==
  ~last.ok <=>
    \/ checks /\ (MulOverflow \/ RatioOverflow \/ SumOverflow)
    \/ DivByZero
    \/ DivOverflow

\* an addition that overflows panics under overflow checks
C8_Witness ==
  /\ last.op = "add"
  /\ checks
  /\ X = MaxVal(ty)
  /\ Y = 1
  /\ ~last.ok

\* the claim as stated: a call in which no multiplication overflows, nothing
\* is divided by zero and the ratio does not overflow returns
C8_Original ==
  (~MulOverflow /\ ~DivByZero /\ ~RatioOverflow) => last.ok

\* the operator a compound assignment mirrors, applied to its operands
Mirrored ==
  CASE last.op = "add_assign" -> add(ty, checks, last.lhs, last.rhs)
    [] last.op = "sub_assign" -> sub(ty, checks, last.lhs, last.rhs)
    [] last.op = "mul_assign_bits" -> mul_bits(ty, checks, last.lhs, last.raw)
    [] last.op = "div_assign_bits" -> div_bits(ty, checks, last.lhs, last.raw)
    [] last.op = "rem_assign_bits" -> rem_bits(ty, checks, last.lhs, last.raw)
    [] last.op = "rem_assign" -> rem(ty, checks, last.lhs, last.rhs)

(***************************************************************************)
(* C9: a compound assignment does what its operator does: it panics when   *)
(* the operator panics, and otherwise leaves in a the bits of a + b,       *)
(* a - b, a * y, a / y, a % y or a % b, with the exponent and base of a    *)
(* as they were and the right operand as it was; a %= b takes the          *)
(* remainder by the bits of b, whatever the exponent of b is.              *)
(***************************************************************************)
C9_AssignMirrors ==
  last.op \in AssignOps =>
    /\ last.ok = Mirrored.ok
    /\ last.ok =>
         /\ a.bits = Mirrored.val.bits
         /\ a.exp = last.lhs.exp
         /\ a.base = last.lhs.base
         /\ last.out = a
    /\ ~last.ok => a = last.lhs
    /\ IF last.op \in RawOps THEN last.raw = b.bits ELSE last.rhs = b
    /\ (last.op = "rem_assign" /\ last.ok) => IsRem(a.bits, X, Y)

\* a = Kilo::new(6); a %= Milli::new(5) leaves Kilo::new(1)
C9_Witness ==
  /\ last.op = "rem_assign"
  /\ last.lhs = new(6, 10, 3)
  /\ b = new(5, 10, -3)
  /\ last.ok
  /\ a = new(1, 10, 3)

\* a.convert::<T>() and b.convert::<T>() have both returned: prev is the
\* conversion of a, last that of b
Paired == last.op = "convert_rhs" /\ prev.op = "convert" /\ last.ok

\* neither conversion overflows: the ratio is a value of the storage type
\* and, where the bits are multiplied, so are both products
NoConvertOverflow ==
  /\ Fits
  /\ Diff >= 0 => /\ InRange(ty, a.bits * Ratio)
                  /\ InRange(ty, b.bits * Ratio)

\* the value bits * base^Exp of v is that of r, a result of exponent
\* ToExp <= Exp: r.bits * base^ToExp = v.bits * base^Exp
SameValue(v, r) ==
  r.bits = v.bits * SatPow(v.base, v.exp - r.exp, MaxVal(ty))

(***************************************************************************)
(* C11: convert preserves the order of commensurate values.  For a and b   *)
(* of the same storage type, base and exponent and a target exponent T for *)
(* which neither conversion overflows, the results are commensurate and    *)
(* a <= b implies a.convert(T) <= b.convert(T); where the bits are         *)
(* multiplied (diff >= 0), a < b implies a.convert(T) < b.convert(T) and   *)
(* each result represents exactly the value of its operand; where they are *)
(* divided (diff < 0), a < b never gives b.convert(T) < a.convert(T).      *)
(***************************************************************************)
C11_ConvertOrder ==
  Paired /\ NoConvertOverflow =>
    /\ prev.out.base = last.out.base /\ prev.out.exp = last.out.exp
    /\ le(a, b) => le(prev.out, last.out)
    /\ Diff >= 0 =>
         /\ lt(a, b) => lt(prev.out, last.out)
         /\ SameValue(a, prev.out)
         /\ SameValue(b, last.out)
    /\ Diff < 0 => (lt(a, b) => ~lt(last.out, prev.out))

\* two distinct values that a division makes equal: 5 and 6 (base 10) at
\* exponent 0 are both 0 at exponent 1
C11_Witness ==
  /\ Paired
  /\ NoConvertOverflow
  /\ Diff < 0
  /\ lt(a, b)
  /\ ~eq(a, b)
  /\ eq(prev.out, last.out)
  /\ a.bits = 5 /\ b.bits = 6 /\ a.base = 10

\* the order stays strict where the bits are multiplied
C11_Strict ==
  /\ Paired
  /\ NoConvertOverflow
  /\ Diff > 0
  /\ lt(a, b)
  /\ lt(prev.out, last.out)
  /\ a.bits < 0 /\ b.bits > 0

====
